---- MODULE Spec2Model ----
(***************************************************************************)
(* Order checkout of the e-commerce backend (app/routers/orders.py) over   *)
(* the relational store, together with the endpoints that read the orders  *)
(* (get_order, list_orders), the product endpoints                         *)
(* (app/routers/products.py) and the review endpoints                      *)
(* (app/routers/reviews.py).                                               *)
(*                                                                         *)
(* The store is the committed content of the tables products, cart_items   *)
(* and orders.  Every request runs in its own AsyncSession (get_async_db): *)
(* what it reads lands in the session's identity map, what it changes is   *)
(* written at flush and becomes visible to other sessions at commit; a     *)
(* session that is closed without commit is rolled back.  The store is      *)
(* PostgreSQL at its default isolation level READ COMMITTED: a statement   *)
(* sees what was committed when it starts, and a row written by an         *)
(* uncommitted transaction blocks other writers of that row until that     *)
(* transaction ends.                                                       *)
(*                                                                         *)
(* Money is counted in the smallest unit (Decimal with two places), so     *)
(* Decimal arithmetic is integer arithmetic.                               *)
(***************************************************************************)
EXTENDS Integers, Sequences, FiniteSets, TLC

\* ------------------------------------------------------------------ bounds
MaxStock == 2
MaxQty == 2
MaxPrice == 2
MaxUpdates == 1
MaxReviews == 2
MaxPage == 2
MaxOrderId == 3
MaxLineId == 3

Products == {1, 2}
\* the ids a request may name: those of the products and one of no product
ProductIds == {1, 2, 3}
\* products.seller_id
SellerOf(p) == p
Users == {1, 2}
\* the accounts: the users above, who sell the products, a buyer, an admin
Accounts == {1, 2, 3, 4}
\* users.role
RoleOf(u) == CASE u = 3 -> "buyer" [] u = 4 -> "admin" [] OTHER -> "seller"
Procs == {1, 2}
LineIds == {1, 2}
\* the users that may issue call s
Callers(s) == IF s = 1 THEN {1} ELSE Users

\* product.price is None
NoPrice == 0
\* ReviewCreate.grade, ge=1 and le=5: the lowest and the highest grade
GradeMin == 1
GradeMax == 5
Grades == {GradeMin, GradeMax}
\* the review calls in flight at one time
RvCalls == {1, 2}
\* avg_rating of no review: result.scalar() or 0.0, as a fraction
NoRating == <<0, 1>>
\* no response yet, and no read call in flight
NoResponse == [status |-> 0, detail |-> "", items |-> <<>>, total |-> 0,
               page |-> 0, page_size |-> 0]
NoRead == [pc |-> "idle", op |-> "", user |-> 0, order_id |-> 0, page |-> 0,
           page_size |-> 0, total |-> 0, resp |-> NoResponse]
NoCall == [pc |-> "idle", op |-> "", user |-> 0, product_id |-> 0, grade |-> 0,
           review_id |-> 0, avg |-> NoRating, status |-> 0]

\* auth.py lines 15-16
ACCESS_TOKEN_EXPIRE_MINUTES == 30
REFRESH_TOKEN_EXPIRE_DAYS == 7
\* timedelta(days=...), line 38, in the minutes the clock counts
MinutesPerDay == 1440
\* config.SECRET_KEY, and a key that is not the server's
SECRET_KEY == "SECRET_KEY"
ForgedKey == "forged"
\* the e-mails that register: a seller and a buyer
Emails == {1, 3}
\* the tokens the server issues before it stops
MaxTokens == 3
\* the moments a request arrives at
Times == {0, ACCESS_TOKEN_EXPIRE_MINUTES, REFRESH_TOKEN_EXPIRE_DAYS * MinutesPerDay}
NoToken == [payload |-> [sub |-> 0, role |-> "", id |-> 0, exp |-> 0,
                         token_type |-> ""],
            key |-> ""]
NoAuth == [op |-> "", status |-> 0, detail |-> "", user |-> 0,
           token |-> NoToken, issued |-> {}]

VARIABLES
    stock,          \* products.stock, committed
    price,          \* products.price, committed (NoPrice: NULL)
    is_active,      \* products.is_active, committed
    cart,           \* cart_items rows, committed
    orders,         \* orders rows with their order_items, committed
    next_order_id,  \* the orders.id sequence
    pc,             \* per checkout call: the statement it is about to run
    user,           \* per checkout call: current_user.id
    cart_items,     \* per checkout call: the cart lines read (line 36)
    loaded,         \* per checkout call: the session's Product objects
    draft,          \* per checkout call: the order built by the loop
    pending,        \* per checkout call: rows flushed and not yet committed
    err,            \* per checkout call: the error it ended with
    detail,         \* per checkout call: what the error response carries
    pre,            \* per checkout call: the store when the call started
    interfered,     \* per checkout call: another request committed since
    overlapped,     \* per checkout call: calls that ran concurrently with it
    n_updates,      \* requests to the products and reviews routers so far
    http,           \* products router: the status of the last response
    target,         \* products router: the product_id the last request named
    registered,     \* users rows, committed: the e-mails registered
    tokens,         \* the tokens the server has issued
    clock,          \* datetime.now, in minutes
    auth,           \* users router and get_current_user: the last response
    seller_id,      \* products.seller_id, committed
    rating,         \* products.rating, committed, as a fraction <<n, d>>
    reviews,        \* reviews rows, committed
    next_review_id, \* the reviews.id sequence
    rv,             \* per review call: its request and its position
    next_line_id,   \* the cart_items.id sequence
    rd              \* the read call (get_order, list_orders) and its response

store == <<stock, price, is_active, cart, orders, next_order_id>>
local == <<pc, user, cart_items, loaded, draft, pending, err, detail>>
ghost == <<pre, interfered, overlapped>>
authn == <<registered, tokens, clock, auth>>
\* what the checkout handler neither reads nor writes
rest == <<seller_id, rating, reviews, next_review_id, rv, next_line_id, rd>>
vars == <<stock, price, is_active, cart, orders, next_order_id, pc, user,
          cart_items, loaded, draft, pending, err, detail, pre, interfered,
          overlapped, n_updates, http, target, authn, rest>>

\* ----------------------------------------------------------------- helpers
\* .order_by(CartItemModel.id)
RECURSIVE OrderById(_)
OrderById(S) ==
    IF S = {} THEN <<>>
    ELSE LET l == CHOOSE x \in S : \A y \in S : x.id <= y.id
         IN  <<l>> \o OrderById(S \ {l})

RECURSIVE SumTotal(_)
SumTotal(items) ==
    IF items = <<>> THEN 0
    ELSE Head(items).total_price + SumTotal(Tail(items))

NoOrder == [id |-> 0, user_id |-> 0, created_at |-> 0, items |-> <<>>,
            total_amount |-> 0]
NoPending == [stock |-> <<>>, order |-> NoOrder, cart_deleted |-> {}]
NoSnapshot == [stock |-> <<>>, cart |-> {}, orders |-> {}]
NoLine == [id |-> 0, user_id |-> 0, product_id |-> 0, quantity |-> 0]

\* ------------------------------------------------------------ order builder
\* an item of one unit whatever the quantity of the cart line
NewOrderItem_OneUnit(ci, product) ==
    [product_id  |-> ci.product_id,
     quantity    |-> 1,
     unit_price  |-> product.price,
     total_price |-> product.price]

\* OrderItemModel(product_id, quantity, unit_price, total_price), lines 52-56
NewOrderItem(ci, product) ==
    [product_id  |-> ci.product_id,
     quantity    |-> ci.quantity,
     unit_price  |-> product.price,
     total_price |-> ci.quantity * product.price]

\* total_amount = total_price in place of +=
AddToTotal_Assign(total_amount, total_price) == total_price

\* total_amount += total_price, line 53
AddToTotal(total_amount, total_price) == total_amount + total_price

\* one unit taken per line, whatever its quantity
DecrementStock_One(objs, p, quantity) ==
    [objs EXCEPT ![p].stock = @ - 1]

\* product.stock -= cart_item.quantity, line 60: the session's object changes
DecrementStock(objs, p, quantity) ==
    [objs EXCEPT ![p].stock = @ - quantity]

\* the checks of a line in the order price, stock, active flag
LineError_PriceFirst(ci, objs) ==
    LET p == ci.product_id
    IN  IF p \notin DOMAIN objs THEN "AttributeError"
        ELSE IF objs[p].price = NoPrice THEN "MissingPrice"
        ELSE IF ci.quantity > objs[p].stock THEN "InsufficientStock"
        ELSE IF ~objs[p].is_active THEN "ProductUnavailable"
        ELSE ""

\* The checks of lines 45-50 on cart line ci, "" when it passes them.  With no
\* product (cart_item.product is None) the condition of line 45 holds and the
\* message of line 46 reads product.id, which raises AttributeError.
LineError(ci, objs) ==
    LET p == ci.product_id
    IN  IF p \notin DOMAIN objs THEN "AttributeError"
        ELSE IF ~objs[p].is_active THEN "ProductUnavailable"
        ELSE IF ci.quantity > objs[p].stock THEN "InsufficientStock"
        ELSE IF objs[p].price = NoPrice THEN "MissingPrice"
        ELSE ""

\* What the response to error e on cart line ci carries: the status and what
\* the detail string names (lines 38, 46, 48, 50, 69); an exception that is
\* no HTTPException becomes a bare 500.
ErrorDetail(e, ci) ==
    CASE e = "EmptyCart" -> {<<"status", 400>>}
      [] e = "ProductUnavailable" ->
            {<<"status", 400>>, <<"product_id", ci.product_id>>}
      [] e = "InsufficientStock" ->
            {<<"status", 400>>, <<"product_name", ci.product_id>>}
      [] e = "MissingPrice" ->
            {<<"status", 400>>, <<"product_name", ci.product_id>>}
      [] OTHER -> {<<"status", 500>>}

\* The loop of lines 43-60 from line i on: objs are the session's Product
\* objects (one per product id, shared by the lines that reference it), items
\* and total_amount the order built so far.  It ends with the first error or
\* with the finished order.
RECURSIVE CheckoutLoop(_, _, _, _, _)
CheckoutLoop(lines, i, objs, items, total_amount) ==
    IF i > Len(lines)
    THEN [err |-> "", at |-> 0, objs |-> objs, items |-> items,
          total_amount |-> total_amount]
    ELSE
      LET ci == lines[i]
          p  == ci.product_id
          e  == LineError(ci, objs)
      IN  IF e # ""
          THEN [err |-> e, at |-> i, objs |-> objs, items |-> items,
                total_amount |-> total_amount]
          ELSE LET item == NewOrderItem(ci, objs[p])
               IN  CheckoutLoop(lines, i + 1,
                                DecrementStock(objs, p, ci.quantity),
                                Append(items, item),
                                AddToTotal(total_amount, item.total_price))

\* the check of line 37 left out
CartIsEmpty_Never(lines) == FALSE

\* if not cart_items, line 37
CartIsEmpty(lines) == lines = <<>>

\* The time the INSERT of an order stamps as created_at: the store's clock,
\* which has advanced with every order inserted before.
Now == next_order_id

\* ------------------------------------------------------------------ session
\* a dependency that commits the session's changed objects as it closes
StockOnClose_Commit(objs) ==
    [p \in DOMAIN stock |-> IF p \in DOMAIN objs THEN objs[p].stock ELSE stock[p]]

\* get_async_db: the session is closed without a commit when the handler
\* raises, so neither the changed objects objs nor flushed rows reach the store
StockOnClose(objs) == stock

\* the quantity the lines ask of product p
RECURSIVE Requested(_, _)
Requested(lines, p) ==
    IF lines = <<>> THEN 0
    ELSE (IF Head(lines).product_id = p THEN Head(lines).quantity ELSE 0)
         + Requested(Tail(lines), p)

\* UPDATE products SET stock = stock - <quantity>, with no condition on it
FlushedStock_Relative(s) ==
    [p \in {q \in DOMAIN loaded[s] : Requested(cart_items[s], q) > 0}
        |-> stock[p] - Requested(cart_items[s], p)]

\* The UPDATE products SET stock = <value> the flush emits for every Product
\* object whose stock the loop changed: the value computed in the session
FlushedStock(s) ==
    [p \in {q \in DOMAIN loaded[s] : Requested(cart_items[s], q) > 0}
        |-> loaded[s][p].stock]

\* rows another open transaction has written and not committed
LockedProducts(s) ==
    UNION {DOMAIN pending[t].stock : t \in {x \in Procs \ {s} : pc[x] = "commit"}}

Active(s) == pc[s] \in {"products", "build", "flush", "commit", "reload"}
Started(s) == pc[s] # "cart"

\* a commit by a request other than s
Interfere(s) ==
    [t \in Procs |-> IF t # s /\ Started(t) THEN TRUE ELSE interfered[t]]

\* ------------------------------------------------------------------- Init
\* A cart line of user u: absent (quantity 0 in the choice) or a line for some
\* product and quantity >= 1 (CartItemBase.quantity, ge=1)
LineChoices == [user_id : Users, product_id : Products, quantity : 0..MaxQty]

\* The cart_items table: line 1 is user 1's, line 2 is anybody's.  Nothing in
\* the checkout code keeps two lines of a user from naming the same product.
Carts ==
    {{[id |-> i, user_id |-> f[i].user_id, product_id |-> f[i].product_id,
       quantity |-> f[i].quantity] : i \in {j \in LineIds : f[j].quantity > 0}} :
        f \in {g \in [LineIds -> LineChoices] : g[1].user_id = 1}}

\* the price a product is listed at, when it has one
ListPrice(p) == p + 1

\* the state before any request, the cart_items table being one of carts
InitOver(carts) ==
    /\ stock \in [Products -> 0..MaxStock]
    /\ price \in {f \in [Products -> 0..MaxPrice + 1] :
                    \A p \in Products : f[p] \in {NoPrice, ListPrice(p)}}
    /\ is_active \in [Products -> BOOLEAN]
    /\ cart \in carts
    /\ orders = {}
    /\ next_order_id = 1
    /\ pc = [s \in Procs |-> "cart"]
    /\ user = [s \in Procs |-> 0]
    /\ cart_items = [s \in Procs |-> <<>>]
    /\ loaded = [s \in Procs |-> <<>>]
    /\ draft = [s \in Procs |-> NoOrder]
    /\ pending = [s \in Procs |-> NoPending]
    /\ err = [s \in Procs |-> ""]
    /\ detail = [s \in Procs |-> {}]
    /\ pre = [s \in Procs |-> NoSnapshot]
    /\ interfered = [s \in Procs |-> FALSE]
    /\ overlapped = [s \in Procs |-> {}]
    /\ n_updates = 0
    /\ http = 0
    /\ target = 0
    /\ registered = {}
    /\ tokens = {}
    /\ clock = 0
    /\ auth = NoAuth
    /\ seller_id = [p \in Products |-> SellerOf(p)]
    /\ rv = [c \in RvCalls |-> NoCall]
    /\ rd = NoRead
    /\ next_line_id = Cardinality(LineIds) + 1

\* the reviews table holds no row
NoReviews ==
    /\ reviews = {}
    /\ rating = [p \in Products |-> NoRating]
    /\ next_review_id = 1

Init == InitOver(Carts) /\ NoReviews

\* ---------------------------------------------------------- checkout_order
\* the handler raises: the session is closed, its transaction rolled back
Fail(s, e, d, objs) ==
    /\ pc' = [pc EXCEPT ![s] = "failed"]
    /\ err' = [err EXCEPT ![s] = e]
    /\ detail' = [detail EXCEPT ![s] = d]
    /\ stock' = StockOnClose(objs)
    /\ pending' = [pending EXCEPT ![s] = NoPending]
    /\ loaded' = [loaded EXCEPT ![s] = <<>>]
    /\ draft' = [draft EXCEPT ![s] = NoOrder]

\* lines 32-38, the SELECT of the user's cart lines
LoadCart(s, u) ==
    /\ pc[s] = "cart"
    /\ LET lines == OrderById({l \in cart : l.user_id = u})
       IN  /\ user' = [user EXCEPT ![s] = u]
           /\ cart_items' = [cart_items EXCEPT ![s] = lines]
           /\ pre' = [pre EXCEPT ![s] =
                        [stock |-> stock, cart |-> cart, orders |-> orders]]
           /\ overlapped' =
                [t \in Procs |->
                   IF t = s THEN {x \in Procs \ {s} : Active(x)}
                   ELSE IF Active(t) THEN overlapped[t] \cup {s}
                   ELSE overlapped[t]]
           /\ IF CartIsEmpty(lines)
              THEN Fail(s, "EmptyCart", ErrorDetail("EmptyCart", NoLine), <<>>)
              ELSE /\ pc' = [pc EXCEPT ![s] = "products"]
                   /\ UNCHANGED <<stock, pending, loaded, draft, err, detail>>
    /\ UNCHANGED <<price, is_active, cart, orders, next_order_id, interfered,
                   n_updates, http, target, authn, rest>>

\* lines 33 and 36, selectinload(CartItemModel.product): the SELECT of the
\* products the lines name, into the session's identity map
LoadProducts(s) ==
    /\ pc[s] = "products"
    /\ loaded' = [loaded EXCEPT ![s] =
                    [p \in DOMAIN stock \cap {cart_items[s][i].product_id :
                                                   i \in 1..Len(cart_items[s])} |->
                       [stock |-> stock[p], price |-> price[p],
                        is_active |-> is_active[p]]]]
    /\ pc' = [pc EXCEPT ![s] = "build"]
    /\ UNCHANGED <<store, user, cart_items, draft, pending, err, detail,
                   ghost, n_updates, http, target, authn, rest>>

\* lines 40-62: the loop over the cart lines, on the session's objects only
BuildOrder(s) ==
    /\ pc[s] = "build"
    /\ LET r == CheckoutLoop(cart_items[s], 1, loaded[s], <<>>, 0)
       IN  IF r.err # ""
           THEN Fail(s, r.err, ErrorDetail(r.err, cart_items[s][r.at]), r.objs)
           ELSE /\ loaded' = [loaded EXCEPT ![s] = r.objs]
                /\ draft' = [draft EXCEPT ![s] =
                               [id |-> 0, user_id |-> user[s],
                                created_at |-> 0, items |-> r.items,
                                total_amount |-> r.total_amount]]
                /\ pc' = [pc EXCEPT ![s] = "flush"]
                /\ UNCHANGED <<stock, pending, err, detail>>
    /\ UNCHANGED <<price, is_active, cart, orders, next_order_id, user,
                   cart_items, ghost, n_updates, http, target, authn, rest>>

\* a DELETE of the cart_items table without its WHERE
DeletedCartLines_All(s) == cart

\* delete(CartItemModel).where(CartItemModel.user_id == current_user.id),
\* line 64: the lines of the user that are committed when it runs
DeletedCartLines(s) == {l \in cart : l.user_id = user[s]}

\* lines 63-64: db.add(order) and the DELETE of the user's cart lines, before
\* which the session flushes: INSERT of the order and its items, UPDATE of the
\* changed products.  The rows stay invisible to others until the commit.
Flush(s) ==
    /\ pc[s] = "flush"
    /\ DOMAIN FlushedStock(s) \cap LockedProducts(s) = {}
    /\ pending' = [pending EXCEPT ![s] =
                     [stock |-> FlushedStock(s),
                      order |-> [draft[s] EXCEPT !.id = next_order_id,
                                                 !.created_at = Now],
                      cart_deleted |-> DeletedCartLines(s)]]
    /\ next_order_id' = next_order_id + 1
    /\ pc' = [pc EXCEPT ![s] = "commit"]
    /\ UNCHANGED <<stock, price, is_active, cart, orders, user, cart_items,
                   loaded, draft, err, detail, ghost, n_updates, http, target, authn, rest>>

\* line 65: await db.commit()
Commit(s) ==
    /\ pc[s] = "commit"
    /\ stock' = [p \in DOMAIN stock |->
                   IF p \in DOMAIN pending[s].stock
                   THEN pending[s].stock[p] ELSE stock[p]]
    /\ orders' = orders \cup {pending[s].order}
    /\ cart' = cart \ pending[s].cart_deleted
    /\ draft' = [draft EXCEPT ![s] = pending[s].order]
    /\ pending' = [pending EXCEPT ![s] = NoPending]
    /\ interfered' = Interfere(s)
    /\ pc' = [pc EXCEPT ![s] = "reload"]
    /\ UNCHANGED <<price, is_active, next_order_id, user, cart_items, loaded,
                   err, detail, pre, overlapped, n_updates, http, target, authn, rest>>

\* lines 67-70: _load_order_with_items and the return
Reload(s) ==
    /\ pc[s] = "reload"
    /\ IF \E o \in orders : o.id = draft[s].id
       THEN /\ pc' = [pc EXCEPT ![s] = "done"]
            /\ loaded' = [loaded EXCEPT ![s] = <<>>]
            /\ UNCHANGED <<stock, pending, draft, err, detail>>
       ELSE Fail(s, "LoadFailed", ErrorDetail("LoadFailed", NoLine), <<>>)
    /\ UNCHANGED <<price, is_active, cart, orders, next_order_id, user,
                   cart_items, ghost, n_updates, http, target, authn, rest>>

\* A statement of the call fails in the store (connection lost, statement
\* refused): the exception leaves the handler like any other.
StoreError(s) ==
    /\ pc[s] \in {"cart", "products", "flush", "commit", "reload"}
    /\ IF pc[s] = "cart"
       THEN /\ pre' = [pre EXCEPT ![s] =
                         [stock |-> stock, cart |-> cart, orders |-> orders]]
            /\ UNCHANGED <<interfered, overlapped>>
       ELSE UNCHANGED ghost
    /\ Fail(s, "PersistenceFailure",
            ErrorDetail("PersistenceFailure", NoLine), <<>>)
    /\ UNCHANGED <<price, is_active, cart, orders, next_order_id, user,
                   cart_items, n_updates, http, target, authn, rest>>

\* one step of checkout call s
Checkout(s) ==
    \/ \E u \in Callers(s) : LoadCart(s, u)
    \/ LoadProducts(s)
    \/ BuildOrder(s)
    \/ Flush(s)
    \/ Commit(s)
    \/ Reload(s)
    \/ StoreError(s)

Next == \E s \in Procs : Checkout(s)

Spec == Init /\ [][Next]_vars

\* ------------------------------------------- a line without its product
\* Carts of user 1 whose lines may name an id of no product: cart_item.product
\* is then None, the case "not product" of line 45.
OrphanCarts ==
    {{[id |-> i, user_id |-> 1, product_id |-> f[i].product_id,
       quantity |-> f[i].quantity] : i \in {j \in LineIds : f[j].quantity > 0}} :
        f \in [LineIds -> [product_id : ProductIds, quantity : 0..MaxQty]]}

InitOrphan == InitOver(OrphanCarts) /\ NoReviews

NextOrphan == Checkout(1)

SpecOrphan == InitOrphan /\ [][NextOrphan]_vars

\* ---------------------------------------------------------------- the cart
\* Adding to the cart, by user u, product_id and quantity (CartItemCreate,
\* quantity ge=1): a cart line is inserted and committed.  A user holds one
\* line for a product at most.
AddToCart(u, product_id, quantity) ==
    /\ next_line_id <= MaxLineId
    /\ ~\E l \in cart : l.user_id = u /\ l.product_id = product_id
    /\ cart' = cart \cup {[id |-> next_line_id, user_id |-> u,
                           product_id |-> product_id, quantity |-> quantity]}
    /\ next_line_id' = next_line_id + 1
    /\ interfered' = Interfere(0)
    /\ UNCHANGED <<stock, price, is_active, orders, next_order_id, local, pre,
                   overlapped, n_updates, http, target, authn, seller_id, rating, reviews,
                   next_review_id, rv, rd>>

\* one checkout call, and the users adding to their carts
NextCart ==
    \/ Checkout(1)
    \/ \E u \in Users, product_id \in Products, quantity \in 1..MaxQty :
          AddToCart(u, product_id, quantity)

\* products in stock, priced and active, and the cart of user 1
InitCart ==
    /\ Init
    /\ stock = [p \in Products |-> MaxStock]
    /\ price = [p \in Products |-> ListPrice(p)]
    /\ is_active = [p \in Products |-> TRUE]
    /\ \A l \in cart : l.id = 1

SpecCart == InitCart /\ [][NextCart]_vars

\* ---------------------------------------------------------- update_product
\* a product's price changed: the order_items rows are repriced with it
UpdatedOrders_Reprice(product_id, new_price) ==
    {[o EXCEPT !.items =
        [i \in 1..Len(o.items) |->
           IF o.items[i].product_id = product_id
           THEN [o.items[i] EXCEPT !.unit_price = new_price,
                                   !.total_price = o.items[i].quantity * new_price]
           ELSE o.items[i]]] : o \in orders}

\* update(ProductModel).where(ProductModel.id == product_id), lines 220-221:
\* the statement writes the products table and no order or order item
UpdatedOrders(product_id, new_price) == orders

\* PUT /products/{product_id} by seller u with the form's price (gt=0) and
\* stock (ge=0); category_ok: the form's category exists and is active.
\* The UPDATE waits while an open transaction holds the product's row.
UpdateProduct(u, product_id, new_price, new_stock, category_ok) ==
    /\ n_updates < MaxUpdates
    /\ n_updates' = n_updates + 1
    /\ target' = product_id
    /\ UNCHANGED authn
    /\ LET found == product_id \in DOMAIN stock /\ is_active[product_id]
       IN  IF RoleOf(u) # "seller"
           THEN \* get_current_seller
                /\ http' = 403
                /\ UNCHANGED <<stock, price, orders, interfered>>
           ELSE IF ~found
           THEN \* db_product is None: db_product.seller_id raises (line 211)
                /\ http' = 500
                /\ UNCHANGED <<stock, price, orders, interfered>>
           ELSE IF seller_id[product_id] # u
           THEN /\ http' = 403
                /\ UNCHANGED <<stock, price, orders, interfered>>
           ELSE IF ~category_ok
           THEN /\ http' = 400
                /\ UNCHANGED <<stock, price, orders, interfered>>
           ELSE /\ product_id \notin LockedProducts(0)
                /\ price' = [price EXCEPT ![product_id] = new_price]
                /\ stock' = [stock EXCEPT ![product_id] = new_stock]
                /\ orders' = UpdatedOrders(product_id, new_price)
                /\ interfered' = Interfere(0)
                /\ http' = 200
    /\ UNCHANGED <<is_active, cart, next_order_id, local, pre, overlapped, rest>>

\* one checkout call, and the sellers' updates
NextCatalog ==
    \/ Checkout(1)
    \/ \E u \in Users, product_id \in ProductIds, new_price \in 1..MaxPrice,
          new_stock \in 0..MaxStock, category_ok \in BOOLEAN :
            UpdateProduct(u, product_id, new_price, new_stock, category_ok)

\* the catalog as its sellers stocked it, every product priced and in stock,
\* and at most one cart line
InitCatalog ==
    /\ Init
    /\ stock = [p \in Products |-> MaxStock]
    /\ price = [p \in Products |-> ListPrice(p)]
    /\ \A l \in cart : l.id = 1

SpecCatalog == InitCatalog /\ [][NextCatalog]_vars

\* ---------------------------------------------------- get_order, list_orders
\* the highest page_size list_orders accepts: Query(10, ge=1, le=100)
PageSizeMax == 100
\* the pages and page sizes the read calls ask for, as <<page, page_size>>:
\* every page of one order, every page of the highest size, and a page and
\* the page sizes that the validation refuses
PageRequests ==
    ((1..MaxPage) \X {1, PageSizeMax})
        \cup {<<0, 1>>, <<1, 0>>, <<1, PageSizeMax + 1>>}

\* a foreign order answered with 403 instead of 404
GetOrderResponse_Forbidden(u, order_id) ==
    LET found == {o \in orders : o.id = order_id}
    IN  IF found = {}
        THEN [NoResponse EXCEPT !.status = 404, !.detail = "Order not found"]
        ELSE IF \E o \in found : o.user_id # u
        THEN [NoResponse EXCEPT !.status = 403, !.detail = "Forbidden"]
        ELSE [NoResponse EXCEPT !.status = 200,
                                !.items = <<CHOOSE o \in found : TRUE>>]

\* get_order, lines 96-101: the order is returned to its owner, and any other
\* case raises the same HTTPException
GetOrderResponse(u, order_id) ==
    LET found == {o \in orders : o.id = order_id}
    IN  IF found = {} \/ \E o \in found : o.user_id # u
        THEN [NoResponse EXCEPT !.status = 404, !.detail = "Order not found"]
        ELSE [NoResponse EXCEPT !.status = 200,
                                !.items = <<CHOOSE o \in found : TRUE>>]

\* GET /orders/{order_id} by u
GetOrder(u, order_id) ==
    /\ rd.pc = "idle"
    /\ rd' = [NoRead EXCEPT !.op = "get_order", !.user = u,
                            !.order_id = order_id,
                            !.resp = GetOrderResponse(u, order_id)]
    /\ UNCHANGED <<store, local, ghost, n_updates, http, target, authn, seller_id, rating,
                   reviews, next_review_id, rv, next_line_id>>

\* GET /orders/ by u, lines 74-79: FastAPI answers 422 to a page below 1 and to
\* a page_size outside 1..100 before the handler runs
ListOrders(u, page, page_size) ==
    /\ rd.pc = "idle"
    /\ IF page < 1 \/ page_size < 1 \/ page_size > PageSizeMax
       THEN rd' = [NoRead EXCEPT !.op = "list_orders", !.user = u,
                                !.page = page, !.page_size = page_size,
                                !.resp = [NoResponse EXCEPT !.status = 422]]
       ELSE rd' = [NoRead EXCEPT !.pc = "count", !.op = "list_orders",
                                !.user = u, !.page = page,
                                !.page_size = page_size]
    /\ UNCHANGED <<store, local, ghost, n_updates, http, target, authn, seller_id, rating,
                   reviews, next_review_id, rv, next_line_id>>

\* lines 80-82: SELECT count(orders.id) WHERE user_id = current_user.id
CountOrders ==
    /\ rd.pc = "count"
    /\ rd' = [rd EXCEPT !.pc = "select",
                        !.total = Cardinality({o \in orders :
                                                 o.user_id = rd.user})]
    /\ UNCHANGED <<store, local, ghost, n_updates, http, target, authn, seller_id, rating,
                   reviews, next_review_id, rv, next_line_id>>

\* .order_by(OrderModel.created_at.desc())
RECURSIVE OrderByCreatedAtDesc(_)
OrderByCreatedAtDesc(S) ==
    IF S = {} THEN <<>>
    ELSE LET o == CHOOSE x \in S : \A y \in S : x.created_at >= y.created_at
         IN  <<o>> \o OrderByCreatedAtDesc(S \ {o})

\* an offset that counts the pages from 0
PageOffset_FromZero(page, page_size) == page * page_size

\* .offset((page - 1) * page_size)
PageOffset(page, page_size) == (page - 1) * page_size

\* lines 83-90: the SELECT of the page
SelectPage(u, page, page_size) ==
    LET sorted == OrderByCreatedAtDesc({o \in orders : o.user_id = u})
        first == PageOffset(page, page_size) + 1
        last == IF first + page_size - 1 < Len(sorted)
                THEN first + page_size - 1 ELSE Len(sorted)
    IN  SubSeq(sorted, first, last)

\* lines 83-93: the page is selected and the OrderList returned
ReturnPage ==
    /\ rd.pc = "select"
    /\ rd' = [rd EXCEPT !.pc = "idle",
                        !.resp = [NoResponse EXCEPT
                                    !.status = 200,
                                    !.items = SelectPage(rd.user, rd.page,
                                                         rd.page_size),
                                    !.total = rd.total,
                                    !.page = rd.page,
                                    !.page_size = rd.page_size]]
    /\ UNCHANGED <<store, local, ghost, n_updates, http, target, authn, seller_id, rating,
                   reviews, next_review_id, rv, next_line_id>>

\* one step of the read call
Read ==
    \/ \E u \in Users, order_id \in 1..MaxOrderId : GetOrder(u, order_id)
    \/ \E u \in Users, q \in PageRequests : ListOrders(u, q[1], q[2])
    \/ CountOrders
    \/ ReturnPage

\* two checkout calls and the read call
NextOrders == (\E s \in Procs : Checkout(s)) \/ Read

\* products in stock, priced and active; user 1 holds a cart line of one unit
\* and user 2 holds one or none
InitOrders ==
    /\ Init
    /\ stock = [p \in Products |-> MaxStock]
    /\ price = [p \in Products |-> ListPrice(p)]
    /\ is_active = [p \in Products |-> TRUE]
    /\ \A l \in cart : l.quantity = 1 /\ l.user_id = l.id
    /\ \E l \in cart : l.user_id = 1

SpecOrders == InitOrders /\ [][NextOrders]_vars

\* ------------------------------------------- create_product, delete_product
\* a delete that takes the product's items out of the orders that hold them
OrdersAfterDelete_Cascade(product_id) ==
    {[o EXCEPT !.items = SelectSeq(o.items,
                                   LAMBDA it : it.product_id # product_id)] :
        o \in orders}

\* product.is_active = False and the commit, lines 255-257: an UPDATE of the
\* product's row; no order and no order item is written
OrdersAfterDelete(product_id) == orders

\* DELETE /products/{product_id} by u; category_ok: the product's category
\* is active.  The product is marked inactive, its row stays.
DeleteProduct(u, product_id, category_ok) ==
    /\ n_updates < MaxUpdates
    /\ n_updates' = n_updates + 1
    /\ target' = product_id
    /\ UNCHANGED authn
    /\ LET found == product_id \in DOMAIN stock /\ is_active[product_id]
       IN  IF RoleOf(u) # "seller"
           THEN \* get_current_seller
                /\ http' = 403
                /\ UNCHANGED <<is_active, orders, interfered>>
           ELSE IF ~found
           THEN \* product is None: product.seller_id raises (line 241)
                /\ http' = 500
                /\ UNCHANGED <<is_active, orders, interfered>>
           ELSE IF seller_id[product_id] # u
           THEN /\ http' = 403
                /\ UNCHANGED <<is_active, orders, interfered>>
           ELSE IF ~category_ok
           THEN /\ http' = 400
                /\ UNCHANGED <<is_active, orders, interfered>>
           ELSE /\ product_id \notin LockedProducts(0)
                /\ is_active' = [is_active EXCEPT ![product_id] = FALSE]
                /\ orders' = OrdersAfterDelete(product_id)
                /\ interfered' = Interfere(0)
                /\ http' = 200
    /\ UNCHANGED <<stock, price, cart, next_order_id, local, pre,
                   overlapped, rest>>

\* the id the products.id sequence gives next; no row is ever deleted
NextProductId == CHOOSE i \in 1..(Cardinality(DOMAIN stock) + 1) :
                    i \notin DOMAIN stock

\* create_product writing the form's stock over that of every product
CreatedStock_Restock(new_stock) ==
    [p \in DOMAIN stock \cup {NextProductId} |-> new_stock]

\* the products.stock column after the INSERT of lines 152-159: one more
\* row, holding the form's stock
CreatedStock(new_stock) == stock @@ (NextProductId :> new_stock)

\* POST /products/ by u with the form's price (gt=0) and stock (ge=0);
\* category_ok: the form's category exists and is active.
CreateProduct(u, new_price, new_stock, category_ok) ==
    /\ n_updates < MaxUpdates
    /\ NextProductId \in ProductIds
    /\ n_updates' = n_updates + 1
    /\ target' = 0
    /\ UNCHANGED authn
    /\ IF RoleOf(u) # "seller"
       THEN /\ http' = 403
            /\ UNCHANGED <<stock, price, is_active, seller_id, rating>>
       ELSE IF ~category_ok
       THEN /\ http' = 400
            /\ UNCHANGED <<stock, price, is_active, seller_id, rating>>
       ELSE /\ stock' = CreatedStock(new_stock)
            /\ price' = price @@ (NextProductId :> new_price)
            /\ is_active' = is_active @@ (NextProductId :> TRUE)
            /\ seller_id' = seller_id @@ (NextProductId :> u)
            /\ rating' = rating @@ (NextProductId :> NoRating)
            /\ http' = 201
    /\ UNCHANGED <<cart, orders, next_order_id, local, ghost, reviews,
                   next_review_id, rv, next_line_id, rd>>

\* -------------------------------------------------------------------- reviews
RECURSIVE SumGrades(_)
SumGrades(S) ==
    IF S = {} THEN 0
    ELSE LET r == CHOOSE x \in S : TRUE IN r.grade + SumGrades(S \ {r})

RECURSIVE Gcd(_, _)
Gcd(a, b) == IF b = 0 THEN a ELSE Gcd(b, a % b)

\* select(func.avg(ReviewModel.grade)) over the active reviews of the product,
\* lines 17-23: the average as a fraction in lowest terms, 0.0 of none
AvgGrade(product_id) ==
    LET S == {r \in reviews : r.product_id = product_id /\ r.is_active}
        n == SumGrades(S)
        d == Cardinality(S)
    IN  IF S = {} THEN NoRating ELSE <<n \div Gcd(n, d), d \div Gcd(n, d)>>

\* the call returns or raises with the status
RvReturn(c, status) ==
    rv' = [rv EXCEPT ![c] = [NoCall EXCEPT !.status = status]]

\* create_review lines 40-47: the role check and the SELECT of the product
CreateReviewCall(c, u, product_id, grade) ==
    /\ rv[c].pc = "idle"
    /\ IF RoleOf(u) # "buyer" THEN RvReturn(c, 403)
       ELSE IF ~(product_id \in DOMAIN stock /\ is_active[product_id])
       THEN RvReturn(c, 404)
       ELSE rv' = [rv EXCEPT ![c] =
                     [NoCall EXCEPT !.pc = "exists", !.op = "create",
                                    !.user = u, !.product_id = product_id,
                                    !.grade = grade]]
    /\ UNCHANGED <<store, local, ghost, http, target, authn, seller_id, rating,
                   reviews, next_review_id, next_line_id, rd>>

\* create_review as one of the requests the routers take
CreateReview(c, u, product_id, grade) ==
    /\ n_updates < MaxUpdates
    /\ n_updates' = n_updates + 1
    /\ CreateReviewCall(c, u, product_id, grade)

\* lines 48-52: the SELECT of an active review of the user for the product
ReviewExists(c) ==
    /\ rv[c].pc = "exists"
    /\ IF \E r \in reviews : /\ r.user_id = rv[c].user
                             /\ r.product_id = rv[c].product_id
                             /\ r.is_active
       THEN RvReturn(c, 400)
       ELSE rv' = [rv EXCEPT ![c].pc = "insert"]
    /\ UNCHANGED <<store, local, ghost, n_updates, http, target, authn, seller_id, rating,
                   reviews, next_review_id, next_line_id, rd>>

\* lines 54-55: db.add(db_review) and the commit
InsertReview(c) ==
    /\ rv[c].pc = "insert"
    /\ next_review_id <= MaxReviews
    /\ reviews' = reviews \cup
                    {[id |-> next_review_id, user_id |-> rv[c].user,
                      product_id |-> rv[c].product_id, grade |-> rv[c].grade,
                      is_active |-> TRUE]}
    /\ next_review_id' = next_review_id + 1
    /\ rv' = [rv EXCEPT ![c].pc = "avg", ![c].review_id = next_review_id]
    /\ UNCHANGED <<store, local, ghost, n_updates, http, target, authn, seller_id, rating,
                   next_line_id, rd>>

\* delete_review lines 66-70: the SELECT of the review and the owner check
DeleteReviewCall(c, u, review_id) ==
    /\ rv[c].pc = "idle"
    /\ IF ~(\E r \in reviews : r.id = review_id /\ r.is_active)
       THEN RvReturn(c, 404)
       ELSE LET review == CHOOSE r \in reviews : r.id = review_id
            IN  IF review.user_id # u /\ RoleOf(u) # "admin"
                THEN RvReturn(c, 403)
                ELSE rv' = [rv EXCEPT ![c] =
                              [NoCall EXCEPT !.pc = "deactivate",
                                             !.op = "delete", !.user = u,
                                             !.product_id = review.product_id,
                                             !.review_id = review_id]]
    /\ UNCHANGED <<store, local, ghost, http, target, authn, seller_id, rating,
                   reviews, next_review_id, next_line_id, rd>>

\* delete_review as one of the requests the routers take
DeleteReview(c, u, review_id) ==
    /\ n_updates < MaxUpdates
    /\ n_updates' = n_updates + 1
    /\ DeleteReviewCall(c, u, review_id)

\* lines 72-73: review.is_active = False and the commit
DeactivateReview(c) ==
    /\ rv[c].pc = "deactivate"
    /\ reviews' = {IF r.id = rv[c].review_id
                   THEN [r EXCEPT !.is_active = FALSE] ELSE r : r \in reviews}
    /\ rv' = [rv EXCEPT ![c].pc = "product"]
    /\ UNCHANGED <<store, local, ghost, n_updates, http, target, authn, seller_id, rating,
                   next_review_id, next_line_id, rd>>

\* lines 75-79: the SELECT of the product, which is rated again when active
ReviewedProduct(c) ==
    /\ rv[c].pc = "product"
    /\ IF is_active[rv[c].product_id]
       THEN rv' = [rv EXCEPT ![c].pc = "avg"]
       ELSE RvReturn(c, 200)
    /\ UNCHANGED <<store, local, ghost, n_updates, http, target, authn, seller_id, rating,
                   reviews, next_review_id, next_line_id, rd>>

\* update_product_rating lines 17-23: the SELECT of the average
AverageRating(c) ==
    /\ rv[c].pc = "avg"
    /\ rv' = [rv EXCEPT ![c].pc = "rate", ![c].avg = AvgGrade(rv[c].product_id)]
    /\ UNCHANGED <<store, local, ghost, n_updates, http, target, authn, seller_id, rating,
                   reviews, next_review_id, next_line_id, rd>>

\* Lines 24-26 and the return of the endpoint (lines 57-58, 79):
\* product.rating = avg_rating and the commit write the rating column of the
\* product's row and no other column.  The UPDATE waits while an open
\* transaction holds the product's row.
UpdateProductRating(c) ==
    /\ rv[c].pc = "rate"
    /\ rv[c].product_id \notin LockedProducts(0)
    /\ rating' = [rating EXCEPT ![rv[c].product_id] = rv[c].avg]
    /\ RvReturn(c, 200)
    /\ UNCHANGED <<stock, price, is_active, cart, orders, next_order_id, local, ghost,
                   n_updates, http, target, authn, seller_id, reviews, next_review_id, next_line_id, rd>>

\* one step of review call c
Review(c) ==
    \/ \E u \in Accounts, product_id \in ProductIds, grade \in Grades :
         CreateReview(c, u, product_id, grade)
    \/ ReviewExists(c)
    \/ InsertReview(c)
    \/ \E u \in Accounts, review_id \in 1..MaxReviews : DeleteReview(c, u, review_id)
    \/ DeactivateReview(c)
    \/ ReviewedProduct(c)
    \/ AverageRating(c)
    \/ UpdateProductRating(c)

\* one step of review call c, the calls following one another without end
ReviewCall(c) ==
    \/ \E u \in Accounts, product_id \in ProductIds, grade \in Grades :
         CreateReviewCall(c, u, product_id, grade) /\ UNCHANGED n_updates
    \/ ReviewExists(c)
    \/ InsertReview(c)
    \/ \E u \in Accounts, review_id \in 1..MaxReviews :
         DeleteReviewCall(c, u, review_id) /\ UNCHANGED n_updates
    \/ DeactivateReview(c)
    \/ ReviewedProduct(c)
    \/ AverageRating(c)
    \/ UpdateProductRating(c)

\* the review calls that run at one time
NextReviews == \E c \in RvCalls : ReviewCall(c)

\* the catalog as its sellers stocked it, every product active, no cart line
\* and no review
InitReviews ==
    /\ InitCatalog
    /\ is_active = [p \in Products |-> TRUE]
    /\ cart = {}

SpecReviews == InitReviews /\ [][NextReviews]_vars

\* ------------------------------------------------------------ authentication
\* jwt.encode(to_encode, SECRET_KEY, algorithm=ALGORITHM): the claims, signed
Encode(payload, key) == [payload |-> payload, key |-> key]

\* jwt.decode(token, SECRET_KEY, algorithms=[ALGORITHM]): the claims of a token
\* whose signature is the key's and whose exp lies ahead, an error otherwise
Decode(token, key) ==
    IF token.key # key
        THEN [error |-> "PyJWTError", payload |-> NoToken.payload]
    ELSE IF token.payload.exp <= clock
        THEN [error |-> "ExpiredSignatureError", payload |-> NoToken.payload]
    ELSE [error |-> "", payload |-> token.payload]

\* data={'sub': user.email, 'role': user.role, 'id': user.id}
TokenData(u) == [sub |-> u, role |-> RoleOf(u), id |-> u]

\* auth.py lines 27-34
create_access_token(data) ==
    Encode([exp |-> clock + ACCESS_TOKEN_EXPIRE_MINUTES,
            token_type |-> "access"] @@ data, SECRET_KEY)

\* auth.py lines 36-43
create_refresh_token(data) ==
    Encode([exp |-> clock + REFRESH_TOKEN_EXPIRE_DAYS * MinutesPerDay,
            token_type |-> "refresh"] @@ data, SECRET_KEY)

\* the tokens a client may send: the ones issued, and their claims signed with
\* a key of its own
Presented == tokens \cup {Encode(t.payload, ForgedKey) : t \in tokens}

\* auth.py lines 46-70, the dependency of the authenticated endpoints: the
\* user it returns, or the 401 it raises
get_current_user(token) ==
    LET d == Decode(token, SECRET_KEY)
        credentials_exception ==
            [status |-> 401, detail |-> "Could not validate credentials", user |-> 0]
    IN  IF d.error = "ExpiredSignatureError"
            THEN [status |-> 401, detail |-> "Token has expired", user |-> 0]
        ELSE IF d.error = "PyJWTError" \/ d.payload.sub = 0
            THEN credentials_exception
        ELSE IF d.payload.sub \notin registered
            THEN credentials_exception
        ELSE [status |-> 200, detail |-> "", user |-> d.payload.sub]

\* users.py lines 46-69: the user whose refresh token it is, or the 401
get_refresh(token) ==
    LET d == Decode(token, SECRET_KEY)
        credentials_exception ==
            [status |-> 401, detail |-> "Could not validate refresh token", user |-> 0]
    IN  IF d.error # "" \/ d.payload.sub = 0 \/ d.payload.token_type # "refresh"
            THEN credentials_exception
        ELSE IF d.payload.sub \notin registered
            THEN credentials_exception
        ELSE [status |-> 200, detail |-> "", user |-> d.payload.sub]

\* users.py lines 17-31: POST /users/
CreateUser(u) ==
    /\ IF u \in registered
         THEN /\ auth' = [NoAuth EXCEPT !.op = "create_user", !.status = 409,
                                        !.detail = "Email already registered"]
              /\ UNCHANGED registered
         ELSE /\ registered' = registered \cup {u}
              /\ auth' = [NoAuth EXCEPT !.op = "create_user", !.status = 201,
                                        !.user = u]
    /\ UNCHANGED <<store, local, ghost, n_updates, http, target, tokens, clock, rest>>

\* users.py lines 34-43: POST /users/token
Login(u, password_ok) ==
    /\ IF u \notin registered \/ ~password_ok
         THEN /\ auth' = [NoAuth EXCEPT !.op = "login", !.status = 401,
                                        !.detail = "Incorrect email or password"]
              /\ UNCHANGED tokens
         ELSE LET access_token == create_access_token(TokenData(u))
                  refresh_token == create_refresh_token(TokenData(u))
              IN  /\ Cardinality(tokens \cup {access_token, refresh_token}) <= MaxTokens
                  /\ tokens' = tokens \cup {access_token, refresh_token}
                  /\ auth' = [NoAuth EXCEPT !.op = "login", !.status = 200,
                                            !.user = u,
                                            !.issued = {access_token, refresh_token}]
    /\ UNCHANGED <<store, local, ghost, n_updates, http, target, registered, clock, rest>>

\* a request to an authenticated endpoint, as far as its dependency
\* get_current_user goes
GetCurrentUser(token) ==
    /\ auth' = get_current_user(token)
                 @@ [NoAuth EXCEPT !.op = "get_current_user", !.token = token]
    /\ UNCHANGED <<store, local, ghost, n_updates, http, target, registered, tokens,
                   clock, rest>>

\* users.py lines 46-69: POST /users/refresh-token
GetRefresh(token) ==
    LET r == get_refresh(token)
        new_refresh_token == create_refresh_token(TokenData(r.user))
    IN  /\ IF r.status = 200
             THEN /\ Cardinality(tokens \cup {new_refresh_token}) <= MaxTokens
                  /\ tokens' = tokens \cup {new_refresh_token}
                  /\ auth' = [NoAuth EXCEPT !.op = "get_refresh", !.token = token,
                                            !.status = 200, !.user = r.user,
                                            !.issued = {new_refresh_token}]
             ELSE /\ auth' = [NoAuth EXCEPT !.op = "get_refresh", !.token = token,
                                            !.status = r.status, !.detail = r.detail]
                  /\ UNCHANGED tokens
        /\ UNCHANGED <<store, local, ghost, n_updates, http, target, registered, clock,
                       rest>>

\* datetime.now(timezone.utc) moves on
Tick ==
    /\ \E t \in Times : t > clock /\ clock' = t
    /\ UNCHANGED <<store, local, ghost, n_updates, http, target, registered, tokens,
                   auth, rest>>

NextAuth ==
    \/ \E u \in Emails : CreateUser(u)
    \/ \E u \in Emails, password_ok \in BOOLEAN : Login(u, password_ok)
    \/ \E token \in Presented : GetCurrentUser(token)
    \/ \E token \in Presented : GetRefresh(token)
    \/ Tick

\* no user registered, no token issued
InitAuth == InitReviews

SpecAuth == InitAuth /\ [][NextAuth]_vars

\* ------------------------------------------------------------------- the shop
\* one checkout call, the catalog requests of the sellers and one review call
NextShop ==
    \/ Checkout(1)
    \/ \E u \in Accounts, product_id \in ProductIds, new_price \in 1..MaxPrice,
          new_stock \in 0..MaxStock, category_ok \in BOOLEAN :
            UpdateProduct(u, product_id, new_price, new_stock, category_ok)
    \/ \E u \in Accounts, product_id \in ProductIds, category_ok \in BOOLEAN :
            DeleteProduct(u, product_id, category_ok)
    \/ \E u \in Accounts, new_price \in 1..MaxPrice, new_stock \in 0..MaxStock,
          category_ok \in BOOLEAN :
            CreateProduct(u, new_price, new_stock, category_ok)
    \/ Review(1)

\* The catalog as its sellers stocked it, every product active, the cart of
\* user 1 with one line of one unit at most, and the reviews table empty or
\* holding the buyer's review of product 1 with the rating it gave.
InitShop ==
    /\ InitOver(Carts)
    /\ stock = [p \in Products |-> MaxStock]
    /\ price = [p \in Products |-> ListPrice(p)]
    /\ is_active = [p \in Products |-> TRUE]
    /\ \A l \in cart : l.id = 1 /\ l.quantity = 1
    /\ reviews \in {{}, {[id |-> 1, user_id |-> 3, product_id |-> 1,
                          grade |-> GradeMax, is_active |-> TRUE]}}
    /\ rating = [p \in Products |-> AvgGrade(p)]
    /\ next_review_id = Cardinality(reviews) + 1

SpecShop == InitShop /\ [][NextShop]_vars

\* ------------------------------------------------------- the sellers alone
\* the sellers' requests to update and to delete a product
NextProducts ==
    \/ \E u \in Users, product_id \in ProductIds, new_price \in 1..MaxPrice,
          new_stock \in 0..MaxStock, category_ok \in BOOLEAN :
            UpdateProduct(u, product_id, new_price, new_stock, category_ok)
    \/ \E u \in Users, product_id \in ProductIds, category_ok \in BOOLEAN :
            DeleteProduct(u, product_id, category_ok)

\* any catalog, active products and inactive ones, and no cart line
InitProducts ==
    /\ Init
    /\ cart = {}

SpecProducts == InitProducts /\ [][NextProducts]_vars

\* ------------------------------------------------------------------ claims
ValidationErrors == {"ProductUnavailable", "InsufficientStock", "MissingPrice"}
StoreAsBefore(s) ==
    /\ stock = pre[s].stock
    /\ cart = pre[s].cart
    /\ orders = pre[s].orders
CartOf(u) == {l \in cart : l.user_id = u}
Succeeded(s) == pc[s] = "done"
Committed(s) == pc[s] \in {"reload", "done"}
\* the first line of the cart s read passes the three checks of the loop
FirstLineValid(s) ==
    LET l == cart_items[s][1]
    IN  /\ is_active[l.product_id]
        /\ price[l.product_id] # NoPrice
        /\ l.quantity <= pre[s].stock[l.product_id]

\* C1: a checkout that ended in a validation error (inactive product, quantity
\* above stock, missing price) leaves stock, orders and cart lines as they
\* were when it started, while no other request has committed since.
C1_ValidationFailureAtomic ==
    \A s \in Procs :
        (pc[s] = "failed" /\ err[s] \in ValidationErrors /\ ~interfered[s])
            => StoreAsBefore(s)

\* the second line of a cart failed after a valid first line of another
\* product had its stock taken in the session
C1_Witness ==
    \E s \in Procs :
        /\ pc[s] = "failed" /\ err[s] \in ValidationErrors /\ ~interfered[s]
        /\ Len(cart_items[s]) = 2
        /\ cart_items[s][1].product_id # cart_items[s][2].product_id
        /\ FirstLineValid(s)

\* C2: two concurrent checkouts of one line each, both asking quantity Q of
\* the same product whose stock is exactly Q: they never both succeed, and
\* when both ran to their end without a store failure exactly one succeeded
\* and the other failed with InsufficientStock.
C2_ExactlyOneSucceeds ==
    \A s, t \in Procs :
        (/\ s # t /\ t \in overlapped[s]
         /\ pc[s] \in {"done", "failed"} /\ pc[t] \in {"done", "failed"}
         /\ err[s] # "PersistenceFailure" /\ err[t] # "PersistenceFailure"
         /\ Len(cart_items[s]) = 1 /\ Len(cart_items[t]) = 1
         /\ cart_items[s][1].product_id = cart_items[t][1].product_id
         /\ cart_items[s][1].quantity = cart_items[t][1].quantity
         /\ pre[s].stock[cart_items[s][1].product_id] = cart_items[s][1].quantity
         /\ pre[t].stock[cart_items[t][1].product_id] = cart_items[t][1].quantity
         /\ is_active[cart_items[s][1].product_id]
         /\ price[cart_items[s][1].product_id] # NoPrice)
        => \/ Succeeded(s) /\ pc[t] = "failed" /\ err[t] = "InsufficientStock"
           \/ Succeeded(t) /\ pc[s] = "failed" /\ err[s] = "InsufficientStock"

\* C3: two concurrent checkouts asking q1 and q2 of the same product, each
\* within the stock and together above it, do not both commit an order.
C3_NoOverdraw ==
    \A s, t \in Procs : \A p \in Products :
        (/\ s # t /\ t \in overlapped[s]
         /\ Started(s) /\ Started(t) /\ user[s] # 0 /\ user[t] # 0
         /\ pre[s].stock[p] = pre[t].stock[p]
         /\ Requested(cart_items[s], p) \in 1..pre[s].stock[p]
         /\ Requested(cart_items[t], p) \in 1..pre[s].stock[p]
         /\ Requested(cart_items[s], p) + Requested(cart_items[t], p)
              > pre[s].stock[p])
        => ~(Committed(s) /\ Committed(t))

\* C4: a stock decrement is written only when the store's current stock of
\* the product covers the quantity the checkout asks of it.
C4_RecheckAtWrite ==
    \A s \in Procs :
        pc[s] = "commit" =>
            \A p \in DOMAIN pending[s].stock :
                stock[p] >= Requested(cart_items[s], p)

\* C5: the committed stock of every product is at least 0.
C5_StockNonNegative == \A p \in Products : stock[p] >= 0

\* two overlapping checkouts of the same product both committed, and a
\* checkout of two lines for one product committed
C5_Witness ==
    /\ \A s \in Procs : Committed(s)
    /\ 2 \in overlapped[1]
    /\ \E p \in Products :
         \A s \in Procs : Requested(cart_items[s], p) > 0
    /\ \E s \in Procs :
         /\ Len(cart_items[s]) = 2
         /\ cart_items[s][1].product_id = cart_items[s][2].product_id

\* C6 as stated: after a successful checkout the stock of each line's product
\* fell by that line's quantity and the user's cart is empty.
C6_PerLineConservation ==
    \A s \in Procs :
        (Succeeded(s) /\ ~interfered[s]) =>
            /\ \A i \in 1..Len(cart_items[s]) :
                 pre[s].stock[cart_items[s][i].product_id]
                   - stock[cart_items[s][i].product_id]
                 = cart_items[s][i].quantity
            /\ CartOf(user[s]) = {}

\* C6 amended: after a successful checkout the stock of every product fell by
\* the sum of the quantities of the cart's lines for that product, and the
\* user's cart is empty (no other request having committed since the start).
C6_Conservation ==
    \A s \in Procs :
        (Succeeded(s) /\ ~interfered[s]) =>
            /\ \A p \in Products :
                 pre[s].stock[p] - stock[p] = Requested(cart_items[s], p)
            /\ CartOf(user[s]) = {}

\* a checkout of two lines for the same product succeeded
C6_Witness ==
    \E s \in Procs :
        /\ Succeeded(s) /\ ~interfered[s]
        /\ Len(cart_items[s]) = 2
        /\ cart_items[s][1].product_id = cart_items[s][2].product_id

\* C7: every item of every order has total_price = quantity * unit_price, and
\* the order's total_amount is the sum of its items' total_price.
C7_TotalsCorrect ==
    \A o \in orders :
        /\ \A i \in 1..Len(o.items) :
             o.items[i].total_price = o.items[i].quantity * o.items[i].unit_price
        /\ o.total_amount = SumTotal(o.items)

\* an order of two items with different prices, one of quantity 2
C7_Witness ==
    \E o \in orders :
        /\ Len(o.items) = 2
        /\ o.items[1].unit_price # o.items[2].unit_price
        /\ \E i \in 1..2 : o.items[i].quantity = 2

\* C8: a checkout that ended in an error, at whatever step, leaves stock,
\* cart lines and orders as they were when it started.
C8_RollbackOnAnyFailure ==
    \A s \in Procs :
        (pc[s] = "failed" /\ ~interfered[s]) => StoreAsBefore(s)

\* C9: a change of a product's price by update_product leaves every existing
\* order as it is: the unit_price and total_price of its items are those
\* checkout computed from the price it read.
C9_PriceFrozen ==
    [][price' # price => \A o \in orders : o \in orders']_vars

\* an order holds an item whose product is now listed at another price
C9_Witness ==
    /\ http = 200
    /\ \E o \in orders : \E i \in 1..Len(o.items) :
         /\ o.items[i].unit_price # price[o.items[i].product_id]
         /\ o.items[i].total_price = o.items[i].quantity * o.items[i].unit_price

\* C10: a checkout by a user without cart lines fails with EmptyCart and
\* writes nothing: no order, no stock change, no cart deletion.
C10_EmptyCart ==
    \A s \in Procs :
        (/\ Started(s) /\ user[s] # 0
         /\ {l \in pre[s].cart : l.user_id = user[s]} = {})
        => /\ pc[s] = "failed" /\ err[s] = "EmptyCart"
           /\ pending[s] = NoPending
           /\ ~interfered[s] => StoreAsBefore(s)

\* a checkout failed with EmptyCart while other users hold cart lines
C10_Witness ==
    \E s \in Procs :
        /\ pc[s] = "failed" /\ err[s] = "EmptyCart"
        /\ cart # {}

\* the products the error response of call s names
DetailProducts(s) ==
    {d[2] : d \in {x \in detail[s] : x[1] \in {"product_id", "product_name"}}}
\* What line i of the cart call s read violates first, judged on the store as
\* it was when the call started: the product's stock less what the earlier
\* lines of the cart ask of the same product.
LineVerdict(s, i) ==
    LET l == cart_items[s][i]
        p == l.product_id
        left == pre[s].stock[p] - Requested(SubSeq(cart_items[s], 1, i - 1), p)
    IN  IF ~is_active[p] THEN "ProductUnavailable"
        ELSE IF l.quantity > left THEN "InsufficientStock"
        ELSE IF price[p] = NoPrice THEN "MissingPrice"
        ELSE ""
AscendingIds(lines) ==
    \A i, j \in 1..Len(lines) : i < j => lines[i].id < lines[j].id

\* C11: the lines are validated in ascending cart-line id order and the error
\* reported is that of the first invalid line alone; a line is checked for an
\* unavailable product, then insufficient stock, then a missing price, so a
\* line violating several reports the earliest.  A call that got past the
\* loop had no invalid line.
C11_FailFastOrder ==
    \A s \in Procs :
        /\ (pc[s] = "failed" /\ err[s] \in ValidationErrors /\ ~interfered[s])
             => /\ AscendingIds(cart_items[s])
                /\ \E i \in 1..Len(cart_items[s]) :
                     /\ \A j \in 1..(i - 1) : LineVerdict(s, j) = ""
                     /\ LineVerdict(s, i) = err[s]
                     /\ DetailProducts(s) = {cart_items[s][i].product_id}
        /\ (pc[s] \in {"flush", "commit", "reload", "done"} /\ ~interfered[s])
             => \A i \in 1..Len(cart_items[s]) : LineVerdict(s, i) = ""

\* a cart of two invalid lines failed with the first line's error, that line
\* violating all three checks and the second line another check than the one
\* reported
C11_Witness ==
    \E s \in Procs :
        /\ pc[s] = "failed" /\ ~interfered[s] /\ Len(cart_items[s]) = 2
        /\ err[s] = "ProductUnavailable"
        /\ LET l == cart_items[s][1]
           IN  /\ ~is_active[l.product_id]
               /\ l.quantity > pre[s].stock[l.product_id]
               /\ price[l.product_id] = NoPrice
        /\ cart_items[s][2].product_id # cart_items[s][1].product_id
        /\ LineVerdict(s, 2) \in ValidationErrors \ {err[s]}

\* C12: a checkout whose first cart line names a product that does not exist
\* fails with the product-unavailable client error for that product, as it
\* does for an inactive product, and with no other kind of failure.
C12_MissingProductUnavailable ==
    \A s \in Procs :
        (/\ pc[s] \in {"failed", "done"}
         /\ err[s] \notin {"PersistenceFailure", "LoadFailed"}
         /\ cart_items[s] # <<>>
         /\ cart_items[s][1].product_id \notin Products)
        => /\ pc[s] = "failed" /\ err[s] = "ProductUnavailable"
           /\ <<"status", 400>> \in detail[s]
           /\ DetailProducts(s) = {cart_items[s][1].product_id}

\* C13: the insufficient-stock error of a checkout names the product of the
\* line that failed and carries the quantity that line requested and the
\* stock that was available to it, and stock, cart and orders are unchanged.
C13_InsufficientStockDetail ==
    \A s \in Procs :
        (pc[s] = "failed" /\ err[s] = "InsufficientStock" /\ ~interfered[s])
        => /\ \E i \in 1..Len(cart_items[s]) :
                LET l == cart_items[s][i]
                    available ==
                        pre[s].stock[l.product_id]
                          - Requested(SubSeq(cart_items[s], 1, i - 1),
                                      l.product_id)
                IN  /\ DetailProducts(s) = {l.product_id}
                    /\ <<"requested", l.quantity>> \in detail[s]
                    /\ <<"available", available>> \in detail[s]
           /\ StoreAsBefore(s)

\* a step changes the stock of a product that exists
StockChanged == \E p \in DOMAIN stock : stock'[p] # stock[p]
\* the step is the commit of a checkout (line 65)
CheckoutCommitted == \E s \in Procs : pc[s] = "commit" /\ pc'[s] = "reload"
\* the step is a successful update_product: a request to the products router
\* answered 200 that left the set of products, their is_active flags and the
\* review calls as they were
ProductUpdated ==
    /\ n_updates' = n_updates + 1 /\ http' = 200
    /\ DOMAIN stock' = DOMAIN stock /\ is_active' = is_active /\ rv' = rv
    /\ pc' = pc

\* C14 as stated: the stock of an existing product is changed by no operation
\* other than the commit of a checkout.
C14_StockOnlyByCheckout == [][StockChanged => CheckoutCommitted]_vars

\* C14 amended: the stock of an existing product is changed only by the
\* commit of a checkout and by a successful update_product; create_product,
\* delete_product and the review endpoints leave it as it is.
C14_StockByCheckoutOrUpdate ==
    [][StockChanged => (CheckoutCommitted \/ ProductUpdated)]_vars

\* create_product has added a product with another stock than the products
\* that existed, whose stock is as it was
C14_Witness ==
    /\ http = 201
    /\ \E p \in DOMAIN stock \ Products : stock[p] # MaxStock
    /\ \A p \in Products : stock[p] = MaxStock

OrdersOf(u) == {o \in orders : o.user_id = u}

\* C15: get_order by user U with the id of an order of another user answers
\* exactly as it answers an id of no order (404 Order not found), and it
\* returns an order only to the user who owns it, and returns it then.
C15_ForeignOrderNotFound ==
    [][(rd'.op = "get_order" /\ rd.pc = "idle" /\ rd' # rd) =>
         LET mine == {o \in OrdersOf(rd'.user) : o.id = rd'.order_id}
         IN  IF mine # {}
             THEN /\ rd'.resp.status = 200
                  /\ rd'.resp.items = <<CHOOSE o \in mine : TRUE>>
             ELSE /\ rd'.resp.status = 404
                  /\ rd'.resp = GetOrderResponse(rd'.user, next_order_id)]_vars

\* get_order was asked for an order of another user and answered not found,
\* while an order of the caller exists too
C15_Witness ==
    /\ rd.op = "get_order" /\ rd.resp.status = 404
    /\ \E o \in orders : o.id = rd.order_id /\ o.user_id # rd.user
    /\ OrdersOf(rd.user) # {}

\* the orders of u created after order o
Newer(u, o) == {x \in OrdersOf(u) : x.created_at > o.created_at}

\* C16: list_orders for user U with page p >= 1 and page size s (s at most
\* 100) returns orders of U only, sorted by creation time descending, namely
\* those at positions (p-1)*s+1 .. p*s of that sequence, so at most s orders,
\* together with total, the number of all orders of U that the count found.
C16_ListOrdersPage ==
    [][/\ (rd.pc = "count" /\ rd'.pc = "select")
            => rd'.total = Cardinality(OrdersOf(rd.user))
       /\ (rd.pc = "select" /\ rd'.pc = "idle")
            => LET items == rd'.resp.items
                   u == rd.user
                   p == rd.page
                   sz == rd.page_size
                   n == Cardinality(OrdersOf(u))
                   left == n - (p - 1) * sz
               IN  /\ p >= 1 /\ sz >= 1 /\ sz <= 100
                   /\ rd'.resp.status = 200
                   /\ \A k \in 1..Len(items) :
                        /\ items[k] \in OrdersOf(u)
                        /\ Cardinality(Newer(u, items[k])) = (p - 1) * sz + k - 1
                   /\ Len(items) = IF left <= 0 THEN 0
                                   ELSE IF left < sz THEN left ELSE sz
                   /\ rd'.resp.total = rd.total
                   /\ rd'.resp.total <= n
                   /\ rd'.resp.page = p /\ rd'.resp.page_size = sz]_vars

\* list_orders returned the second page of size 1 to a user with two orders:
\* the older of the two, with total 2
C16_Witness ==
    /\ rd.op = "list_orders" /\ rd.pc = "idle" /\ rd.resp.status = 200
    /\ rd.page = 2 /\ rd.page_size = 1
    /\ Len(rd.resp.items) = 1 /\ rd.resp.total = 2
    /\ Cardinality(Newer(rd.user, rd.resp.items[1])) = 1

\* C17: an order, once created, is never changed: whatever the operation, every
\* order is among the orders after it as it was before (its items, their
\* quantity, unit_price and total_price, its total_amount and its owner), and
\* an order that is added takes the id of no order that exists.
C17_OrdersImmutable ==
    [][/\ \A o \in orders : o \in orders'
       /\ \A n \in orders' \ orders : \A o \in orders : o.id # n.id]_vars

\* an order holds an item of a product that delete_product has since marked
\* inactive
C17_Witness ==
    /\ http = 200
    /\ \E o \in orders : \E i \in 1..Len(o.items) :
         /\ ~is_active[o.items[i].product_id]
         /\ o.total_amount = SumTotal(o.items)

\* C18: a checkout that committed created exactly one order, owned by the
\* caller, whose items are, one for one and in ascending cart-line id order,
\* the cart lines of the caller as they were when the call read them: same
\* product, same quantity, and as unit_price the product's price.
C18_OrderMirrorsCart ==
    \A s \in Procs :
        Committed(s) =>
            LET created == {o \in orders : o.id = draft[s].id}
                lines == cart_items[s]
            IN  /\ Cardinality(created) = 1
                /\ ~interfered[s] => orders \ pre[s].orders = created
                /\ AscendingIds(lines)
                /\ {lines[i] : i \in 1..Len(lines)}
                     = {l \in pre[s].cart : l.user_id = user[s]}
                /\ \A o \in created :
                     /\ o.user_id = user[s]
                     /\ o \notin pre[s].orders
                     /\ Len(o.items) = Len(lines)
                     /\ \A i \in 1..Len(lines) :
                          /\ o.items[i].product_id = lines[i].product_id
                          /\ o.items[i].quantity = lines[i].quantity
                          /\ o.items[i].unit_price = price[lines[i].product_id]

\* a checkout of two lines for different products, the second of two units,
\* committed the only order there is
C18_Witness ==
    \E s \in Procs :
        /\ Succeeded(s) /\ ~interfered[s]
        /\ Len(cart_items[s]) = 2
        /\ cart_items[s][1].product_id # cart_items[s][2].product_id
        /\ cart_items[s][2].quantity = 2
        /\ Cardinality(orders) = 1

\* C19: every cart line that the commit of a checkout removes is one of the
\* lines the checkout read, and so is an item of the order it created: a line
\* the same user added after the read is not deleted without being ordered.
C19_RemovedLinesOrdered ==
    [][\A s \in Procs :
         (pc[s] = "commit" /\ pc'[s] = "reload") =>
            \A l \in cart \ cart' :
                \E i \in 1..Len(cart_items[s]) :
                    /\ cart_items[s][i] = l
                    /\ draft'[s].items[i].product_id = l.product_id
                    /\ draft'[s].items[i].quantity = l.quantity]_vars

\* C20: a step of a checkout by user U, whether the call succeeds or fails,
\* leaves the cart lines of the other users, the orders of the other users
\* and the stock of every product that no line of U's cart names as they are.
C20_CheckoutFrame ==
    [][\A s \in Procs :
         pc'[s] # pc[s] =>
            LET u == user'[s]
            IN  /\ {l \in cart' : l.user_id # u} = {l \in cart : l.user_id # u}
                /\ {o \in orders' : o.user_id # u}
                     = {o \in orders : o.user_id # u}
                /\ \A p \in DOMAIN stock :
                     Requested(cart_items'[s], p) = 0 => stock'[p] = stock[p]]_vars

\* user 1's checkout succeeded and user 2's failed on its line, while the cart
\* line of user 2 is still there and a product that user 1's cart did not name
\* has the stock it had
C20_Witness ==
    \E s, t \in Procs :
        /\ Succeeded(s) /\ pc[t] = "failed" /\ err[t] \in ValidationErrors
        /\ user[s] # user[t]
        /\ CartOf(user[t]) # {}
        /\ \E p \in Products :
             Requested(cart_items[s], p) = 0 /\ stock[p] = pre[s].stock[p]

\* the product a request names exists and is active
Found(product_id) == product_id \in DOMAIN stock /\ is_active[product_id]

\* C21: update_product and delete_product by a seller, called with the id of
\* a product that does not exist or is inactive, answer 404 and change no
\* stored state; 403 is answered only when the product was found.
C21_MissingProductNotFound ==
    [][(n_updates' = n_updates + 1 /\ target' # 0) =>
         /\ ~Found(target') => (http' = 404 /\ UNCHANGED <<store, seller_id>>)
         /\ http' = 403 => Found(target')]_vars

\* C22: no two active reviews share the same user and product, whatever the
\* sequence and interleaving of create_review and delete_review calls.
C22_OneActiveReview ==
    \A r1, r2 \in reviews :
        (/\ r1.is_active /\ r2.is_active
         /\ r1.user_id = r2.user_id /\ r1.product_id = r2.product_id)
        => r1 = r2

\* C23: get_current_user accepts only a token issued as an access token, as
\* the refresh endpoint accepts only a token issued as a refresh token.
C23_TokenTypesNotInterchangeable ==
    /\ (auth.op = "get_current_user" /\ auth.status = 200)
           => auth.token.payload.token_type = "access"
    /\ (auth.op = "get_refresh" /\ auth.status = 200)
           => auth.token.payload.token_type = "refresh"

====
